---- MODULE Spec2Model ----
(***************************************************************************)
(* The two counterflow twin-premixed-flame notebooks of cantera-jupyter:   *)
(* flames/twinPremixedESR.ipynb ("twin") and the extinction-strain-rate    *)
(* notebook ("esr").  Each is a linear script: configure, call the solver  *)
(* of the external flame object, post-process its arrays with derivative,  *)
(* computeStrainRates and computeConsumptionSpeed, print and plot.         *)
(*                                                                         *)
(* Floating-point numbers are modelled as exact rationals [num, den] in    *)
(* lowest terms with den > 0, extended with the IEEE non-finite values     *)
(* (den = 0: num = 1 is inf, num = -1 is -inf, num = 0 is nan).            *)
(***************************************************************************)
EXTENDS Integers, Sequences, FiniteSets, TLC

\* Bounds of the model: the longest grid the solver returns, and the largest
\* sample of the axial velocity (also the peak of the heat-release rate).
MaxLen == 5
MaxVal == 1

---------------------------------------------------------------------------
\* Rational arithmetic standing for Python float arithmetic
\* (from __future__ import division: "/" is true division).

Sgn(k) == IF k > 0 THEN 1 ELSE IF k < 0 THEN -1 ELSE 0

AbsInt(k) == IF k < 0 THEN -k ELSE k

RECURSIVE GCD(_, _)
GCD(a, b) == IF b = 0 THEN a ELSE GCD(b, a % b)

NaN == [num |-> 0, den |-> 0]

Inf(s) == [num |-> s, den |-> 0]

\* n/d in lowest terms, d # 0
Mk(n, d) ==
    LET g == GCD(AbsInt(n), AbsInt(d))
        s == Sgn(d)
    IN  [num |-> (s * n) \div g, den |-> (s * d) \div g]

R(k) == [num |-> k, den |-> 1]

IsNaN(a) == a.den = 0 /\ a.num = 0

IsInf(a) == a.den = 0 /\ a.num # 0

RatNeg(a) == [num |-> -a.num, den |-> a.den]

RatAbs(a) == [num |-> AbsInt(a.num), den |-> a.den]

RatAdd(a, b) ==
    IF IsNaN(a) \/ IsNaN(b) THEN NaN
    ELSE IF IsInf(a) /\ IsInf(b) THEN (IF a.num = b.num THEN a ELSE NaN)
    ELSE IF IsInf(a) THEN a
    ELSE IF IsInf(b) THEN b
    ELSE Mk(a.num * b.den + b.num * a.den, a.den * b.den)

RatSub(a, b) == RatAdd(a, RatNeg(b))

RatMul(a, b) ==
    IF IsNaN(a) \/ IsNaN(b) THEN NaN
    ELSE IF IsInf(a) \/ IsInf(b)
         THEN (IF a.num = 0 \/ b.num = 0 THEN NaN ELSE Inf(Sgn(a.num) * Sgn(b.num)))
    ELSE Mk(a.num * b.num, a.den * b.den)

\* numpy float64 division: x/0 is +-inf, 0/0 is nan (a warning, no exception)
RatDiv(a, b) ==
    IF IsNaN(a) \/ IsNaN(b) THEN NaN
    ELSE IF IsInf(b) THEN (IF IsInf(a) THEN NaN ELSE R(0))
    ELSE IF IsInf(a) THEN Inf(a.num * (IF b.num < 0 THEN -1 ELSE 1))
    ELSE IF b.num = 0 THEN (IF a.num = 0 THEN NaN ELSE Inf(Sgn(a.num)))
    ELSE Mk(a.num * b.den, a.den * b.num)

\* a > b; every comparison with nan is False
RatGt(a, b) ==
    IF IsNaN(a) \/ IsNaN(b) THEN FALSE
    ELSE IF IsInf(a) THEN (a.num = 1 /\ b # a)
    ELSE IF IsInf(b) THEN b.num = -1
    ELSE a.num * b.den > b.num * a.den

RatLt(a, b) == RatGt(b, a)

---------------------------------------------------------------------------
\* numpy arrays: sequences, indexed from 0 as in Python

\* a valid Python index of a: -len <= i < len
InRange(a, i) == -Len(a) <= i /\ i < Len(a)

\* a[i], negative i counting from the end
Item(a, i) == IF i < 0 THEN a[Len(a) + i + 1] ELSE a[i + 1]

\* a slice bound, normalised as Python does
Bound(a, i) ==
    IF i < 0 THEN (IF Len(a) + i < 0 THEN 0 ELSE Len(a) + i)
    ELSE IF i > Len(a) THEN Len(a) ELSE i

\* a[lo:hi]
Slice(a, lo, hi) ==
    LET l == Bound(a, lo)
        h == Bound(a, hi)
    IN  IF h <= l THEN << >> ELSE [k \in 1..(h - l) |-> a[l + k]]

\* np.zeros(shape)
Zeros(len) == [k \in 1..len |-> R(0)]

\* np.diff(a): a[1:] - a[:-1]
Diff(a) == IF Len(a) < 2 THEN << >> ELSE [k \in 1..(Len(a) - 1) |-> RatSub(a[k + 1], a[k])]

\* elementwise a / b of two arrays of the same length
DivArrays(a, b) == [k \in 1..Len(a) |-> RatDiv(a[k], b[k])]

\* abs(a), elementwise
AbsArray(a) == [k \in 1..Len(a) |-> RatAbs(a[k])]

\* a[lo:hi] = vals, for vals of the slice's length
SetSlice(a, lo, hi, vals) ==
    LET l == Bound(a, lo)
        h == Bound(a, hi)
    IN  [k \in 1..Len(a) |-> IF l < k /\ k <= h THEN vals[k - l] ELSE a[k]]

\* a[i] = v
SetItem(a, i, v) ==
    LET j == IF i < 0 THEN Len(a) + i + 1 ELSE i + 1
    IN  [k \in 1..Len(a) |-> IF k = j THEN v ELSE a[k]]

\* a.argmax() of a non-empty array: the first index of the largest entry
RECURSIVE ArgMaxTo(_, _)
ArgMaxTo(a, k) ==
    IF k <= 1 THEN 1
    ELSE LET b == ArgMaxTo(a, k - 1)
         IN  IF RatGt(a[k], a[b]) THEN k ELSE b

ArgMax(a) == ArgMaxTo(a, Len(a)) - 1

\* a.argmin() of a non-empty array: the first index of the smallest entry
RECURSIVE ArgMinTo(_, _)
ArgMinTo(a, k) ==
    IF k <= 1 THEN 1
    ELSE LET b == ArgMinTo(a, k - 1)
         IN  IF RatLt(a[k], a[b]) THEN k ELSE b

ArgMin(a) == ArgMinTo(a, Len(a)) - 1

\* max(a) and min(a) of a non-empty array
MaxOf(a) == Item(a, ArgMax(a))

MinOf(a) == Item(a, ArgMin(a))

RECURSIVE SumTo(_, _)
SumTo(a, k) == IF k = 0 THEN R(0) ELSE RatAdd(SumTo(a, k - 1), a[k])

\* a.sum()
Sum(a) == SumTo(a, Len(a))

\* mutant: the left rectangle rule in place of the trapezoidal rule
Trapz_LeftRectangle(y, x) ==
    LET d == Diff(x)
    IN  Sum([k \in 1..Len(d) |-> RatMul(d[k], y[k])])

\* np.trapz(y, x): (diff(x) * (y[1:] + y[:-1]) / 2.0).sum()
Trapz(y, x) ==
    LET d == Diff(x)
    IN  Sum([k \in 1..Len(d) |->
                RatDiv(RatMul(d[k], RatAdd(y[k + 1], y[k])), R(2))])

---------------------------------------------------------------------------
\* The kernel's state

VARIABLES
    notebook,          \* "esr" or "twin": which notebook is run
    pc,                \* the statement to execute next
    args,              \* the arguments of the call of solveOpposedFlame
    oppFlame,          \* the flame's settings: reactants.mdot, refine criteria
    arrays,            \* the numpy arrays: the flame's fields and strainRates
    n,                 \* the scan index of computeStrainRates (esr)
    maxStrLocation,    \* locals of computeStrainRates (twin); << >> is unbound
    minVelocityPoint,
    strainRatePoint,
    K,
    result,            \* (T, K, strainRatePoint) as returned; << >> before
    csv,               \* the rows written to premixed_twin_flame.csv
    Sc,                \* the consumption speed; << >> before
    marker,            \* the point marked by the axial velocity plot
    err,               \* the exception that ended the run, "none" if none
    log                \* the statements executed so far, oldest first
                       \* ("solve!": the solver was called and raised)

vars == << notebook, pc, args, oppFlame, arrays, n, maxStrLocation,
           minVelocityPoint, strainRatePoint, K, result, csv, Sc, marker,
           err, log >>

Notebooks == {"esr", "twin"}

FlameFields == {"grid", "u", "T", "density", "heat_release_rate", "cp"}

ArrayNames == FlameFields \cup {"strainRates"}

\* the default refine criteria of solveOpposedFlame: ratio=2, slope=0.3,
\* curve=0.3, prune=0.05
DefaultCriteria ==
    [ratio |-> R(2), slope |-> Mk(3, 10), curve |-> Mk(3, 10), prune |-> Mk(5, 100)]

\* the call of the run-solver cell: solveOpposedFlame(oppFlame, massFlux,
\* loglevel=...), massFlux = gas.density * axial_velocity (here 2.2 kg/m2/s),
\* the refine criteria left at their defaults
Call == [massFlux |-> Mk(22, 10), criteria |-> DefaultCriteria]

\* mutant: the strain rates are computed before the solver is invoked
Script_AnalyseBeforeSolve(nb) ==
    IF nb = "esr"
    THEN << "mdot", "refine", "show", "strain", "solve", "return",
            "csv", "Sc", "print", "done" >>
    ELSE << "mdot", "refine", "show", "strain", "solve", "return",
            "csv", "Sc", "print", "plot", "done" >>

\* The statements of a run in program order: the body of solveOpposedFlame,
\* then the rest of the run-solver cell and the cells after it.
Script(nb) ==
    IF nb = "esr"
    THEN << "mdot", "refine", "show", "solve", "strain", "return",
            "csv", "Sc", "print", "done" >>
    ELSE << "mdot", "refine", "show", "solve", "strain", "return",
            "csv", "Sc", "print", "plot", "done" >>

\* the statement after s
After(nb, s) ==
    LET sc == Script(nb)
        i == CHOOSE k \in 1..Len(sc) : sc[k] = s
    IN  sc[i + 1]

Init ==
    /\ notebook \in Notebooks
    /\ args = Call
    /\ pc = "mdot"
    /\ oppFlame = [mdot |-> << >>, refine |-> << >>]
    /\ arrays = [a \in ArrayNames |-> << >>]
    /\ n = 0
    /\ maxStrLocation = << >>
    /\ minVelocityPoint = << >>
    /\ strainRatePoint = << >>
    /\ K = << >>
    /\ result = << >>
    /\ csv = << >>
    /\ Sc = << >>
    /\ marker = << >>
    /\ err = "none"
    /\ log = << >>

\* an exception propagates out of the cell: the run ends
Raise(e) ==
    /\ pc' = "raised"
    /\ err' = e

\* the statement completes: on to the next one
Goto(s) ==
    /\ pc' = s
    /\ err' = err

---------------------------------------------------------------------------
\* What the external solver can return: a grid of 2..MaxLen strictly
\* increasing points with variable spacing, and one array per field.

Spacings == {1, 2}

Lens == 2..MaxLen

IntArray(f) == [k \in DOMAIN f |-> R(f[k])]

RECURSIVE PartialSum(_, _)
PartialSum(f, k) == IF k = 0 THEN 0 ELSE PartialSum(f, k - 1) + f[k]

\* the grids of len points: grid[0] = 0, every spacing drawn from Spacings
Grids(len) ==
    { [k \in 1..len |-> R(PartialSum(d, k - 1))] : d \in [1..(len - 1) -> Spacings] }

Ones(len) == [k \in 1..len |-> R(1)]

Ramp(len) == [k \in 1..len |-> R(k)]

Down(len) == [k \in 1..len |-> R(len + 1 - k)]

\* an axial velocity that falls from the inlet and rises through the flame
FlameU(len) == [k \in 1..len |-> IF k = 1 THEN R(1) ELSE IF k = len THEN R(2) ELSE R(0)]

\* every axial-velocity profile of len points, over one set of thermal fields
StrainSweep(len) ==
    { [grid |-> g, u |-> IntArray(v), T |-> Down(len), density |-> Ramp(len),
       heat_release_rate |-> Ramp(len), cp |-> Ones(len)] :
        g \in Grids(len), v \in [1..len -> 0..MaxVal] }

\* the thermal fields swept: a flame heating up or cooling down along the
\* grid, and a flame that did not ignite (uniform temperature)
ThermalCases(len) ==
    { [T |-> Ramp(len), density |-> Down(len), cp |-> Ones(len)],
      [T |-> Down(len), density |-> Ones(len), cp |-> Ramp(len)],
      [T |-> Ones(len), density |-> Ones(len), cp |-> Ones(len)] }

\* every heat-release profile of len points (none or peak at each point) and
\* thermal case, over one axial velocity
ThermalSweep(len) ==
    { [grid |-> g, u |-> FlameU(len), T |-> c.T, density |-> c.density,
       heat_release_rate |-> IntArray(q), cp |-> c.cp] :
        g \in Grids(len), c \in ThermalCases(len), q \in [1..len -> {0, MaxVal}] }

\* the solutions of len points
SolverOutputs(len) == StrainSweep(len) \cup ThermalSweep(len)

---------------------------------------------------------------------------
\* The functions of the "Define functions" cell

\* mutant: derivative writes its result into its argument y
NewArray_InPlace(y) == y

\* the array np.zeros returns in derivative: a new one, bound to strainRates
\* by the caller
NewArray(y) == "strainRates"

\* mutant: every difference is divided by the first spacing, as on a uniform grid
Derivative_UniformSpacing(mem, x, y) ==
    LET dx == Diff(mem[x])
        dy == Diff(mem[y])
        q == [k \in 1..Len(dy) |-> RatDiv(dy[k], dx[1])]
    IN  [mem EXCEPT !["strainRates"] = q \o << q[Len(q)] >>]

\* mutant: the backward difference of the last entry is left out
Derivative_NoBackwardDifference(mem, x, y) ==
    LET m0 == [mem EXCEPT !["strainRates"] = Zeros(Len(mem[y]))]
    IN  [m0 EXCEPT !["strainRates"] =
            SetSlice(@, 0, -1, DivArrays(Diff(m0[y]), Diff(m0[x])))]

\* derivative(x, y) on the arrays named x and y of mem; the memory after it
Derivative(mem, x, y) ==
    LET dydx == NewArray(y)
        m0 == [mem EXCEPT ![dydx] = Zeros(Len(mem[y]))]
        dx == Diff(m0[x])
        dy == Diff(m0[y])
        m1 == [m0 EXCEPT ![dydx] = SetSlice(@, 0, -1, DivArrays(dy, dx))]
        last == RatDiv(RatSub(Item(m1[y], -1), Item(m1[y], -2)),
                       RatSub(Item(m1[x], -1), Item(m1[x], -2)))
    IN  [m1 EXCEPT ![dydx] = SetItem(@, -1, last)]

\* y[-2] does not exist, or dy/dx does not broadcast
DerivativeRaises(mem, x, y) == Len(mem[y]) < 2 \/ Len(mem[x]) # Len(mem[y])

\* mutant: the loop goes on over equal neighbours (>= for >)
ScanContinues_NonStrict(sr, i) == ~RatGt(Item(sr, i + 1), Item(sr, i))

\* the test of the while loop of computeStrainRates (esr)
ScanContinues(sr, i) == RatGt(Item(sr, i), Item(sr, i + 1))

\* mutant: K is taken at the global maximum of |strainRates|
TwinStrainRates_GlobalMaximum(sr, u_) ==
    LET msl == ArgMax(AbsArray(sr))
    IN  [err |-> "none", maxStrLocation |-> << msl >>,
         minVelocityPoint |-> << ArgMin(u_) >>, strainRatePoint |-> << msl >>,
         K |-> << RatAbs(Item(sr, msl)) >>]

\* mutant: both slices include their end point, so neither is ever empty
TwinStrainRates_InclusiveSlices(sr, u_) ==
    LET msl == ArgMax(AbsArray(sr))
        mvp == ArgMin(Slice(u_, 0, msl + 1))
        srp == ArgMax(AbsArray(Slice(sr, 0, mvp + 1)))
    IN  [err |-> "none", maxStrLocation |-> << msl >>,
         minVelocityPoint |-> << mvp >>, strainRatePoint |-> << srp >>,
         K |-> << RatAbs(Item(sr, srp)) >>]

\* computeStrainRates (twin) after the derivative: the locals it binds and
\* the exception it raises, if any
TwinStrainRates(sr, u_) ==
    LET msl == ArgMax(AbsArray(sr))
        us == Slice(u_, 0, msl)
        mvp == ArgMin(us)
        ss == Slice(sr, 0, mvp)
        srp == ArgMax(AbsArray(ss))
    IN  IF us = << >>
        THEN [err |-> "ValueError", maxStrLocation |-> << msl >>,
              minVelocityPoint |-> << >>, strainRatePoint |-> << >>, K |-> << >>]
        ELSE IF ss = << >>
        THEN [err |-> "ValueError", maxStrLocation |-> << msl >>,
              minVelocityPoint |-> << mvp >>, strainRatePoint |-> << >>, K |-> << >>]
        ELSE [err |-> "none", maxStrLocation |-> << msl >>,
              minVelocityPoint |-> << mvp >>, strainRatePoint |-> << srp >>,
              K |-> << RatAbs(Item(sr, srp)) >>]

\* computeConsumptionSpeed(oppFlame)
ConsumptionSpeed(mem) ==
    LET Tb == MaxOf(mem["T"])
        Tu == MinOf(mem["T"])
        rho_u == MaxOf(mem["density"])
        integrand == DivArrays(mem["heat_release_rate"], mem["cp"])
        I == Trapz(integrand, mem["grid"])
    IN  RatDiv(RatDiv(I, RatSub(Tb, Tu)), rho_u)

\* mutant: the temperature at the last grid point for the peak temperature
PeakTemperature_Last(mem) == Item(mem["T"], -1)

\* np.max(oppFlame.T)
PeakTemperature(mem) == MaxOf(mem["T"])

---------------------------------------------------------------------------
\* The statements of a run

Frame == << n, maxStrLocation, minVelocityPoint, strainRatePoint, K >>

\* oppFlame.reactants.mdot = massFlux
SetMassFlux ==
    /\ pc = "mdot"
    /\ oppFlame' = [oppFlame EXCEPT !.mdot = << args.massFlux >>]
    /\ log' = Append(log, "mdot")
    /\ Goto(After(notebook, "mdot"))
    /\ UNCHANGED << notebook, args, arrays, Frame, result, csv, Sc, marker >>

\* oppFlame.set_refine_criteria(ratio=ratio, slope=slope, curve=curve, prune=prune)
SetRefineCriteria ==
    /\ pc = "refine"
    /\ oppFlame' = [oppFlame EXCEPT !.refine = << args.criteria >>]
    /\ log' = Append(log, "refine")
    /\ Goto(After(notebook, "refine"))
    /\ UNCHANGED << notebook, args, arrays, Frame, result, csv, Sc, marker >>

\* oppFlame.show_solution()
ShowSolution ==
    /\ pc = "show"
    /\ log' = Append(log, "show")
    /\ Goto(After(notebook, "show"))
    /\ UNCHANGED << notebook, args, oppFlame, arrays, Frame, result, csv, Sc, marker >>

\* oppFlame.solve(loglevel, auto=True) returns: the flame holds a solution
SolveReturns ==
    /\ pc = "solve"
    /\ \E len \in Lens : \E out \in SolverOutputs(len) :
          arrays' = [a \in ArrayNames |-> IF a \in FlameFields THEN out[a] ELSE arrays[a]]
    /\ log' = Append(log, "solve")
    /\ Goto(After(notebook, "solve"))
    /\ UNCHANGED << notebook, args, oppFlame, Frame, result, csv, Sc, marker >>

\* mutant: the exception of the solver is caught and the run goes on
SolveRaises_Swallowed ==
    /\ pc = "solve"
    /\ log' = Append(log, "solve!")
    /\ Goto(After(notebook, "solve"))
    /\ UNCHANGED << notebook, args, oppFlame, arrays, Frame, result, csv, Sc, marker >>

\* oppFlame.solve(loglevel, auto=True) raises: nothing catches it
SolveRaises ==
    /\ pc = "solve"
    /\ log' = Append(log, "solve!")
    /\ Raise("CanteraError")
    /\ UNCHANGED << notebook, args, oppFlame, arrays, Frame, result, csv, Sc, marker >>

\* computeStrainRates(oppFlame) of the esr notebook, up to its while loop
StrainRatesEsr ==
    /\ pc = "strain"
    /\ notebook = "esr"
    /\ log' = Append(log, "strain")
    /\ IF DerivativeRaises(arrays, "grid", "u")
       THEN /\ Raise("IndexError")
            /\ UNCHANGED << arrays, n >>
       ELSE /\ arrays' = Derivative(arrays, "grid", "u")
            /\ n' = 0
            /\ Goto("scan")
    /\ UNCHANGED << notebook, args, oppFlame, maxStrLocation, minVelocityPoint,
                    strainRatePoint, K, result, csv, Sc, marker >>

\* one test of "while strainRates[n] > strainRates[n+1]" and what follows it
Scan ==
    /\ pc = "scan"
    /\ LET sr == arrays["strainRates"]
       IN  IF ~InRange(sr, n) \/ ~InRange(sr, n + 1)
           THEN /\ Raise("IndexError")
                /\ UNCHANGED << n, strainRatePoint, K >>
           ELSE IF ScanContinues(sr, n)
           THEN /\ n' = n + 1
                /\ Goto("scan")
                /\ UNCHANGED << strainRatePoint, K >>
           ELSE /\ strainRatePoint' = << n >>
                /\ K' = << RatAbs(Item(sr, n)) >>
                /\ Goto(After(notebook, "strain"))
                /\ UNCHANGED n
    /\ UNCHANGED << notebook, args, oppFlame, arrays, maxStrLocation,
                    minVelocityPoint, result, csv, Sc, marker, log >>

\* computeStrainRates(oppFlame) of the twin notebook
StrainRatesTwin ==
    /\ pc = "strain"
    /\ notebook = "twin"
    /\ log' = Append(log, "strain")
    /\ IF DerivativeRaises(arrays, "grid", "u")
       THEN /\ Raise("IndexError")
            /\ UNCHANGED << arrays, maxStrLocation, minVelocityPoint, strainRatePoint, K >>
       ELSE LET mem == Derivative(arrays, "grid", "u")
                r == TwinStrainRates(mem["strainRates"], mem["u"])
            IN  /\ arrays' = mem
                /\ maxStrLocation' = r.maxStrLocation
                /\ minVelocityPoint' = r.minVelocityPoint
                /\ strainRatePoint' = r.strainRatePoint
                /\ K' = r.K
                /\ IF r.err = "none" THEN Goto(After(notebook, "strain")) ELSE Raise(r.err)
    /\ UNCHANGED << notebook, args, oppFlame, n, result, csv, Sc, marker >>

\* return np.max(oppFlame.T), K, strainRatePoint
Return ==
    /\ pc = "return"
    /\ result' = << [T |-> PeakTemperature(arrays), K |-> K[1],
                     strainRatePoint |-> strainRatePoint[1]] >>
    /\ log' = Append(log, "return")
    /\ Goto(After(notebook, "return"))
    /\ UNCHANGED << notebook, args, oppFlame, arrays, Frame, csv, Sc, marker >>

\* oppFlame.write_csv("premixed_twin_flame.csv", quiet=False)
WriteCsv ==
    /\ pc = "csv"
    /\ csv' = << [f \in FlameFields |-> arrays[f]] >>
    /\ log' = Append(log, "csv")
    /\ Goto(After(notebook, "csv"))
    /\ UNCHANGED << notebook, args, oppFlame, arrays, Frame, result, Sc, marker >>

\* Sc = computeConsumptionSpeed(oppFlame)
ComputeConsumptionSpeed ==
    /\ pc = "Sc"
    /\ Sc' = << ConsumptionSpeed(arrays) >>
    /\ log' = Append(log, "Sc")
    /\ Goto(After(notebook, "Sc"))
    /\ UNCHANGED << notebook, args, oppFlame, arrays, Frame, result, csv, marker >>

\* the three print statements
PrintResults ==
    /\ pc = "print"
    /\ log' = Append(log, "print")
    /\ Goto(After(notebook, "print"))
    /\ UNCHANGED << notebook, args, oppFlame, arrays, Frame, result, csv, Sc, marker >>

\* plt.plot(oppFlame.grid[strainRatePoint]*100, oppFlame.u[strainRatePoint], 'gs')
PlotStrainRatePoint ==
    /\ pc = "plot"
    /\ log' = Append(log, "plot")
    /\ LET p == result[1].strainRatePoint
       IN  IF InRange(arrays["grid"], p) /\ InRange(arrays["u"], p)
           THEN /\ marker' = << [x |-> RatMul(Item(arrays["grid"], p), R(100)),
                                 y |-> Item(arrays["u"], p)] >>
                /\ Goto(After(notebook, "plot"))
           ELSE /\ Raise("IndexError")
                /\ UNCHANGED marker
    /\ UNCHANGED << notebook, args, oppFlame, arrays, Frame, result, csv, Sc >>

Next ==
    \/ SetMassFlux
    \/ SetRefineCriteria
    \/ ShowSolution
    \/ SolveReturns
    \/ SolveRaises
    \/ StrainRatesEsr
    \/ Scan
    \/ StrainRatesTwin
    \/ Return
    \/ WriteCsv
    \/ ComputeConsumptionSpeed
    \/ PrintResults
    \/ PlotStrainRatePoint

Spec == Init /\ [][Next]_vars

---------------------------------------------------------------------------
\* Vocabulary of the properties

\* statement s has been executed
Did(s) == \E i \in 1..Len(log) : log[i] = s

\* when: its place in the log
Pos(s) == CHOOSE i \in 1..Len(log) : log[i] = s

Count(s) == Cardinality({i \in 1..Len(log) : log[i] = s})

grid == arrays["grid"]

u == arrays["u"]

strainRates == arrays["strainRates"]

\* order of finite rationals, by cross-multiplication
Le(a, b) == a.den > 0 /\ b.den > 0 /\ a.num * b.den <= b.num * a.den

Lt(a, b) == a.den > 0 /\ b.den > 0 /\ a.num * b.den < b.num * a.den

\* |a| <= |b| and |a| < |b|
AbsLe(a, b) == a.den > 0 /\ b.den > 0 /\ AbsInt(a.num) * b.den <= AbsInt(b.num) * a.den

AbsLt(a, b) == a.den > 0 /\ b.den > 0 /\ AbsInt(a.num) * b.den < AbsInt(b.num) * a.den

\* k = |a|
IsAbsOf(k, a) == k.den = a.den /\ k.num = AbsInt(a.num)

\* q = (y1 - y0)/(x1 - x0), for integral samples
IsQuotient(q, y1, y0, x1, x0) ==
    /\ y1.den = 1 /\ y0.den = 1 /\ x1.den = 1 /\ x0.den = 1
    /\ q.den > 0
    /\ q.num * (x1.num - x0.num) = (y1.num - y0.num) * q.den

\* C1: derivative(x, y) of two arrays of length n >= 2 has length n; entry i
\* is the forward difference (y[i+1]-y[i])/(x[i+1]-x[i]) for 0 <= i < n-1 and
\* entry n-1 the backward difference (y[n-1]-y[n-2])/(x[n-1]-x[n-2]), on
\* grids of variable spacing.
DerivativeIsForwardBackwardDifference ==
    strainRates # << >> =>
        LET len == Len(u)
        IN  /\ len >= 2
            /\ Len(grid) = len
            /\ Len(strainRates) = len
            /\ \A i \in 0..(len - 2) :
                  IsQuotient(strainRates[i + 1], u[i + 2], u[i + 1], grid[i + 2], grid[i + 1])
            /\ IsQuotient(strainRates[len], u[len], u[len - 1], grid[len], grid[len - 1])

\* a derivative over a grid of unequal spacings with a non-integral entry
DerivativeOnVariableGrid ==
    /\ Len(strainRates) >= 3
    /\ grid[2].num - grid[1].num # grid[3].num - grid[2].num
    /\ strainRates[1].den = 2
    /\ strainRates[2].num < 0
    /\ strainRates[Len(strainRates)].num > 0

\* C2: in the esr notebook computeStrainRates returns as strainRatePoint the
\* smallest index n with strainRates[n] <= strainRates[n+1]: every pair of
\* consecutive entries before it is strictly decreasing, and K = |strainRates[n]|.
EsrPointIsFirstLocalMinimum ==
    (notebook = "esr" /\ strainRatePoint # << >>) =>
        LET p == strainRatePoint[1]
        IN  /\ p >= 0
            /\ p + 2 <= Len(strainRates)
            /\ Le(strainRates[p + 1], strainRates[p + 2])
            /\ \A i \in 0..(p - 1) :
                  /\ Lt(strainRates[i + 2], strainRates[i + 1])
                  /\ ~Le(strainRates[i + 1], strainRates[i + 2])
            /\ K # << >>
            /\ IsAbsOf(K[1], strainRates[p + 1])

\* the scan went past two decreasing pairs and stopped at a negative minimum
EsrScanAdvanced ==
    /\ notebook = "esr"
    /\ strainRatePoint # << >>
    /\ strainRatePoint[1] >= 2
    /\ strainRates[strainRatePoint[1] + 1].num < 0
    /\ K[1].num > 0
    /\ pc = "return"

\* m is the index of the largest |strainRates|, the first one on ties
IsMaxStrLocation(m) ==
    /\ m \in 0..(Len(strainRates) - 1)
    /\ \A i \in 0..(Len(strainRates) - 1) : AbsLe(strainRates[i + 1], strainRates[m + 1])
    /\ \A i \in 0..(m - 1) : AbsLt(strainRates[i + 1], strainRates[m + 1])

\* v is the index of the smallest axial velocity below index m, the first one
\* on ties
IsMinVelocityPoint(v, m) ==
    /\ v \in 0..(m - 1)
    /\ \A i \in 0..(m - 1) : Le(u[v + 1], u[i + 1])
    /\ \A i \in 0..(v - 1) : Lt(u[v + 1], u[i + 1])

\* C3: in the twin notebook, whenever computeStrainRates returns,
\* strainRatePoint < minVelocityPoint < maxStrLocation, where maxStrLocation
\* is the index of the largest |strainRates| and minVelocityPoint that of the
\* smallest axial velocity below it; K is the maximum of |strainRates[i]|
\* over i < minVelocityPoint (first index on ties), so K is at most the
\* global maximum of |strainRates|.
TwinPointIsAheadOfFlame ==
    (notebook = "twin" /\ strainRatePoint # << >>) =>
        /\ maxStrLocation # << >>
        /\ minVelocityPoint # << >>
        /\ K # << >>
        /\ LET m == maxStrLocation[1]
               v == minVelocityPoint[1]
               p == strainRatePoint[1]
           IN  /\ IsMaxStrLocation(m)
               /\ IsMinVelocityPoint(v, m)
               /\ 0 <= p /\ p < v /\ v < m
               /\ IsAbsOf(K[1], strainRates[p + 1])
               /\ \A i \in 0..(v - 1) : AbsLe(strainRates[i + 1], K[1])
               /\ \A i \in 0..(p - 1) : AbsLt(strainRates[i + 1], K[1])
               /\ AbsLe(K[1], strainRates[m + 1])

\* the twin notebook picked a point other than the inlet, with K below the
\* global maximum
TwinPointInsideDomain ==
    /\ notebook = "twin"
    /\ strainRatePoint # << >>
    /\ strainRatePoint[1] >= 1
    /\ minVelocityPoint[1] >= 2
    /\ AbsLt(K[1], strainRates[maxStrLocation[1] + 1])
    /\ pc = "return"

\* the statements that analyse the solution
Analysis == {"strain", "csv", "Sc"}

\* C4: every run goes configure -> solve -> analyse: the caller's mass flux
\* and refine criteria are written to the flame before the solver is invoked,
\* and the strain-rate computation, the CSV write and computeConsumptionSpeed
\* come only after the solver has returned; no analysis reads the flame's
\* arrays before the solve.
ConfigureSolveAnalyse ==
    /\ (Did("solve") \/ Did("solve!") \/ pc = "solve") =>
          /\ Did("mdot") /\ Did("refine")
          /\ oppFlame.mdot = << args.massFlux >>
          /\ oppFlame.refine = << args.criteria >>
    /\ \A s \in Analysis :
          Did(s) => (Did("solve") /\ Pos("solve") < Pos(s))
    /\ (strainRates # << >> \/ csv # << >> \/ Sc # << >>) => Did("solve")
    /\ (pc \in Analysis \/ pc = "scan") => Did("solve")

\* a run of the twin notebook that reached its end
TwinRunCompleted ==
    /\ notebook = "twin"
    /\ pc = "done"
    /\ log = << "mdot", "refine", "show", "solve", "strain", "return",
                "csv", "Sc", "print", "plot" >>

\* C5: solveOpposedFlame invokes the solver exactly once and neither catches
\* nor retries: if the solver raises, the error reaches the caller, no strain
\* rate is computed, no (T, K, strainRatePoint) is returned, and the CSV
\* write and the consumption speed of the cell are not executed.
SolverErrorPropagates ==
    /\ Count("solve") + Count("solve!") <= 1
    /\ (Did("return") => Count("solve") = 1)
    /\ Did("solve!") =>
          /\ pc = "raised"
          /\ err = "CanteraError"
          /\ log = << "mdot", "refine", "show", "solve!" >>
          /\ strainRates = << >>
          /\ strainRatePoint = << >>
          /\ K = << >>
          /\ result = << >>
          /\ csv = << >>
          /\ Sc = << >>

\* the solver raised
SolverRaised ==
    /\ Did("solve!")
    /\ err = "CanteraError"
    /\ pc = "raised"

\* C6: the analysis functions only read the solver's output: once the solver
\* has returned, no statement changes the flame's grid, axial velocity,
\* temperature, density, heat-release-rate or cp array (derivative writes
\* into a newly allocated array).
AnalysisLeavesFlameUnchanged ==
    [][Did("solve") => \A f \in FlameFields : arrays'[f] = arrays[f]]_vars

\* every analysis function has run on a solution
AllAnalysesRan ==
    /\ Did("strain") /\ Did("csv") /\ Did("Sc")
    /\ strainRates # << >>
    /\ strainRates # u
    /\ Sc # << >>
    /\ csv = << [f \in FlameFields |-> arrays[f]] >>

RECURSIVE ProdNum(_, _)
\* the product of the first k entries of an integral array
ProdNum(a, k) == IF k = 0 THEN 1 ELSE ProdNum(a, k - 1) * a[k].num

RECURSIVE TrapezoidSum(_, _, _, _)
\* sum over i < k of (x[i+1]-x[i]) * (q[i]*P/c[i] + q[i+1]*P/c[i+1]), P the
\* product of all c: 2*P times the trapezoidal integral of q/c over x
TrapezoidSum(x, q, c, k) ==
    IF k = 0 THEN 0
    ELSE LET P == ProdNum(c, Len(c))
         IN  TrapezoidSum(x, q, c, k - 1)
               + (x[k + 1].num - x[k].num)
                   * ((q[k].num * P) \div c[k].num + (q[k + 1].num * P) \div c[k + 1].num)

\* t is the largest (smallest) entry of a
IsMaxOf(t, a) == (\E i \in 1..Len(a) : a[i] = t) /\ (\A i \in 1..Len(a) : Le(a[i], t))

IsMinOf(t, a) == (\E i \in 1..Len(a) : a[i] = t) /\ (\A i \in 1..Len(a) : Le(t, a[i]))

\* C7: computeConsumptionSpeed returns Sc = I/(Tb - Tu)/rho_u, I the
\* trapezoidal integral of heat_release_rate/cp over the grid, Tb the
\* maximum and Tu the minimum temperature, rho_u the maximum density.
\* (Stated without division: Sc * (Tb - Tu) * rho_u * 2P = 2P * I; with
\* Tb = Tu the float quotient is inf, -inf or nan by the sign of I.)
ConsumptionSpeedIsNormalisedIntegral ==
    Sc # << >> =>
        \E Tb \in 1..MaxLen, Tu \in 1..MaxLen, rho_u \in 1..MaxLen :
            /\ IsMaxOf(R(Tb), arrays["T"])
            /\ IsMinOf(R(Tu), arrays["T"])
            /\ IsMaxOf(R(rho_u), arrays["density"])
            /\ LET c == arrays["cp"]
                   S == TrapezoidSum(grid, arrays["heat_release_rate"], c, Len(grid) - 1)
                   P2 == 2 * ProdNum(c, Len(c))
               IN  IF Tb = Tu
                   THEN Sc[1].den = 0 /\ Sc[1].num = Sgn(S)
                   ELSE /\ Sc[1].den > 0
                        /\ Sc[1].num * (Tb - Tu) * rho_u * P2 = S * Sc[1].den

\* a consumption speed that is a proper fraction, from a heat release that
\* varies over a grid of unequal spacings with a varying cp
ConsumptionSpeedComputed ==
    /\ Sc # << >>
    /\ Sc[1].den > 2
    /\ Sc[1].num > 0
    /\ arrays["cp"][2] # arrays["cp"][1]
    /\ arrays["heat_release_rate"][2] # arrays["heat_release_rate"][1]
    /\ Len(grid) >= 3
    /\ grid[2].num - grid[1].num # grid[3].num - grid[2].num

\* C8: in the esr notebook the while-scan of computeStrainRates terminates
\* for every grid and velocity array of length n >= 2 with
\* strainRatePoint <= n-2 and never reads strainRates at an index >= n: the
\* last two entries of strainRates are equal, so the strict comparison stops
\* the scan there at the latest.
EsrScanTerminatesInBounds ==
    /\ [](notebook = "esr" /\ strainRates # << >> =>
            /\ Len(strainRates) >= 2
            /\ strainRates[Len(strainRates)] = strainRates[Len(strainRates) - 1]
            /\ (pc = "scan" => (0 <= n /\ n + 1 <= Len(strainRates) - 1))
            /\ err # "IndexError"
            /\ (strainRatePoint # << >> => strainRatePoint[1] <= Len(grid) - 2))
    /\ (notebook = "esr" /\ pc = "scan") ~> (notebook = "esr" /\ pc = "return")

\* the scan stopped only at the last pair, n-2, of a grid of n >= 4 points
EsrScanReachedLastPair ==
    /\ notebook = "esr"
    /\ pc = "return"
    /\ Len(grid) >= 4
    /\ strainRatePoint = << Len(grid) - 2 >>

\* the largest |strainRates| is at grid index 0
LargestStrainAtInlet ==
    \A i \in 1..Len(strainRates) : AbsLe(strainRates[i], strainRates[1])

\* the largest |strainRates| is at an index m >= 1, and no axial velocity
\* below m is smaller than that at index 0
SmallestVelocityAtInlet ==
    \E m \in 1..(Len(strainRates) - 1) :
        /\ IsMaxStrLocation(m)
        /\ \A i \in 0..(m - 1) : Le(u[1], u[i + 1])

\* C9: in the twin notebook computeStrainRates returns a result only if
\* maxStrLocation >= 1 and minVelocityPoint >= 1: when the largest
\* |strainRates| is at index 0, or the smallest axial velocity below
\* maxStrLocation is at index 0, the arg-extremum is taken over an empty
\* slice and the call ends in an error, with no strain-rate point and no K.
TwinEmptySliceIsAnError ==
    (notebook = "twin" /\ Did("strain") /\ strainRates # << >>) =>
        /\ (pc # "raised" =>
               /\ maxStrLocation # << >> /\ maxStrLocation[1] >= 1
               /\ minVelocityPoint # << >> /\ minVelocityPoint[1] >= 1)
        /\ (LargestStrainAtInlet \/ SmallestVelocityAtInlet) =>
               /\ pc = "raised"
               /\ err = "ValueError"
               /\ strainRatePoint = << >>
               /\ K = << >>
               /\ result = << >>
               /\ csv = << >>
               /\ ~Did("return")

\* the velocity slice was not empty, the strain-rate slice was
TwinSecondSliceEmpty ==
    /\ notebook = "twin"
    /\ err = "ValueError"
    /\ maxStrLocation # << >>
    /\ maxStrLocation[1] >= 2
    /\ minVelocityPoint = << 0 >>
    /\ SmallestVelocityAtInlet

\* C10: in both notebooks, whenever solveOpposedFlame returns
\* (T, K, strainRatePoint): T is the maximum of the temperature array,
\* K = |strainRates[strainRatePoint]| >= 0, and
\* 0 <= strainRatePoint < len(grid), a valid index of the grid and of the
\* axial velocity where the plotting cell marks the strain-rate point.
ReturnedTripleIsValid ==
    /\ result # << >> =>
          LET r == result[1]
          IN  /\ IsMaxOf(r.T, arrays["T"])
              /\ 0 <= r.strainRatePoint
              /\ r.strainRatePoint < Len(grid)
              /\ r.strainRatePoint < Len(u)
              /\ r.strainRatePoint < Len(strainRates)
              /\ IsAbsOf(r.K, strainRates[r.strainRatePoint + 1])
              /\ r.K.num >= 0 /\ r.K.den > 0
              /\ (Did("plot") =>
                     /\ err = "none"
                     /\ marker = << [x |-> RatMul(grid[r.strainRatePoint + 1], R(100)),
                                     y |-> u[r.strainRatePoint + 1]] >>)
    /\ (pc \notin {"mdot", "refine", "show", "solve", "strain", "scan", "return", "raised"})
          => result # << >>

\* the plotting cell marked a returned point that is not the inlet, with a
\* peak temperature that is not the last entry of T
PlotMarkedReturnedPoint ==
    /\ notebook = "twin"
    /\ Did("plot")
    /\ marker # << >>
    /\ result # << >>
    /\ result[1].strainRatePoint >= 1
    /\ result[1].K.num > 0
    /\ result[1].T # arrays["T"][Len(grid)]

\* the while loop of computeStrainRates runs on: the interpreter executes it
\* to its end
FairSpec == Init /\ [][Next]_vars /\ WF_vars(Scan)
====
